---- MODULE Spec2Model ----
(***************************************************************************)
(* _configsvrEnableSharding (ConfigSvrEnableShardingCommand) of            *)
(* src/mongo/db/s/config/configsvr_enable_sharding_command.cpp, with the   *)
(* collaborators it calls: config.databases, the distributed lock manager, *)
(* the sharding catalog manager, the catalog cache and the audit sink.     *)
(*                                                                         *)
(* Each call slot runs one invocation of the command at a time; pc[c] is   *)
(* the position of the invocation inside checkAuthForCommand / run.        *)
(***************************************************************************)
EXTENDS Naturals, FiniteSets, TLC

\* ------------------------------------------------------------------ bounds

\* Number of client connections that run the command concurrently.
NumCalls == 2

Calls == 1..NumCalls

\* ------------------------------------------------------- program constants

kAdminDb == "admin"
kLocalDb == "local"
kMajority == "majority"
ConfigServer == "ConfigServer"

\* ----------------------------------------------------------- input domains

\* Database names that pass NamespaceString::validDBName and are not reserved.
UserDbNames == {"sales", "new"}
\* A name that fails NamespaceString::validDBName (it contains a '.').
BadDbName == "a.b"
DbNames == UserDbNames \cup {kAdminDb, kLocalDb, BadDbName}

\* Shards registered in the cluster.
Shards == {"s1", "s2"}
\* cmdObj["primaryShard"]: missing (shardElem.ok() is false) or a string.
NoElem == "<absent>"
ShardElems == {NoElem, ""} \cup Shards

WModes == {kMajority, "w1"}
ClusterRoles == {ConfigServer, "ShardServer"}

\* A request: the authorization session's answer for the caller, the write
\* concern of the operation context, and the two fields of cmdObj.
Requests == [auth : BOOLEAN, wMode : WModes, db : DbNames, shardElem : ShardElems]
\* The user databases the clients of Spec name in their requests.
TargetDbs == {"sales"}
SpecRequests == {r \in Requests : r.db \in UserDbNames => r.db \in TargetDbs}
NoRequest == [auth |-> FALSE, wMode |-> "-", db |-> "-", shardElem |-> "-"]

\* config.databases documents, keyed by name (_id).
NoRecord == [primary |-> "-", sharded |-> FALSE, exists |-> FALSE]
Records == [primary : Shards, sharded : BOOLEAN, exists : {TRUE}]

NoOwner == 0
\* A lock holder that is not a call of this command (another operation of the
\* config server on the same database).
OtherHolder == NumCalls + 1

VARIABLES
    clusterRole,  \* serverGlobalParams.clusterRole
    databases,    \* config.databases: name -> document or NoRecord
    distLock,     \* distributed lock manager: resource name -> owner or NoOwner
    cache,        \* Grid's CatalogCache: names with a cached database entry
    pc,           \* position of each call
    req,          \* the request each call is running
    status,       \* "none" while running, then "OK" or the error thrown
    n,            \* response.getN() of the optimistic update
    seen,         \* what the catalog manager read for the call
    audits,       \* audit::logEnableSharding records emitted by the call
    purges,       \* purgeDatabase calls made by the call
    cmCalls,      \* catalog manager invocations made by the call
    repeat,       \* history: how an earlier call with the same request had ended
    expired,      \* history: the lock the call holds in scope has expired
    assigned,     \* history: primary-shard assignments made per name
    before        \* history: the document of the call's dbName when it started

vars == <<clusterRole, databases, distLock, cache, pc, req, status, n, seen,
          audits, purges, cmCalls, repeat, expired, assigned, before>>

\* ------------------------------------------------------------ pure helpers

\* ShardId::isValid for the shard id built from the request.
isValid(shardId) == shardId \in Shards

\* ShardId shardId = shardElem.ok() ? ShardId(shardElem.String()) : ShardId();
ShardIdOf(shardElem) == IF shardElem # NoElem THEN shardElem ELSE ""

\* NamespaceString::validDBName(dbname, DollarInDbNameBehavior::Allow)
validDBName(db) == db # BadDbName

\* checkAuthForCommand
checkAuthForCommand(r) == IF r.auth THEN "OK" ELSE "Unauthorized"

\* Variants of the uasserts of run(): the write concern check left out, the
\* reserved-name test naming only the admin database, and the database name
\* checked ahead of the shard id.
RunPreconditionsNoWriteConcern(role, r) ==
    IF role # ConfigServer THEN "IllegalOperation"
    ELSE IF ~(r.shardElem = NoElem \/ isValid(ShardIdOf(r.shardElem))) THEN "BadValue"
    ELSE IF ~validDBName(r.db) THEN "InvalidNamespace"
    ELSE IF r.db = kAdminDb \/ r.db = kLocalDb THEN "InvalidOptions.cantShard"
    ELSE "OK"

RunPreconditionsAdminOnly(role, r) ==
    IF role # ConfigServer THEN "IllegalOperation"
    ELSE IF r.wMode # kMajority THEN "InvalidOptions.writeConcern"
    ELSE IF ~(r.shardElem = NoElem \/ isValid(ShardIdOf(r.shardElem))) THEN "BadValue"
    ELSE IF ~validDBName(r.db) THEN "InvalidNamespace"
    ELSE IF r.db = kAdminDb THEN "InvalidOptions.cantShard"
    ELSE "OK"

RunPreconditionsDbFirst(role, r) ==
    IF role # ConfigServer THEN "IllegalOperation"
    ELSE IF r.wMode # kMajority THEN "InvalidOptions.writeConcern"
    ELSE IF ~validDBName(r.db) THEN "InvalidNamespace"
    ELSE IF r.db = kAdminDb \/ r.db = kLocalDb THEN "InvalidOptions.cantShard"
    ELSE IF ~(r.shardElem = NoElem \/ isValid(ShardIdOf(r.shardElem))) THEN "BadValue"
    ELSE "OK"

\* The uasserts of run() before the scope guard, in source order.
RunPreconditions(role, r) ==
    IF role # ConfigServer THEN "IllegalOperation"
    ELSE IF r.wMode # kMajority THEN "InvalidOptions.writeConcern"
    ELSE IF ~(r.shardElem = NoElem \/ isValid(ShardIdOf(r.shardElem))) THEN "BadValue"
    ELSE IF ~validDBName(r.db) THEN "InvalidNamespace"
    ELSE IF r.db = kAdminDb \/ r.db = kLocalDb THEN "InvalidOptions.cantShard"
    ELSE "OK"

\* The command framework runs checkAuthForCommand, then run().
Preconditions(role, r) ==
    IF checkAuthForCommand(r) # "OK" THEN checkAuthForCommand(r)
    ELSE RunPreconditions(role, r)

\* ErrorCodes value of a status.
Code(st) ==
    CASE st = "InvalidOptions.writeConcern" -> "InvalidOptions"
      [] st = "InvalidOptions.cantShard" -> "InvalidOptions"
      [] OTHER -> st

\* Variant: the filter names the database only.
FilterMatchesNameOnly(doc, shardId) == doc.exists

\* Variant: the filter names the primary whether or not a shard id was given.
FilterMatchesPrimaryAlways(doc, shardId) ==
    /\ doc.exists
    /\ doc.primary = shardId

\* Query filter of the optimistic update: {_id: dbname [, primary: shardId]}.
FilterMatches(doc, shardId) ==
    /\ doc.exists
    /\ isValid(shardId) => doc.primary = shardId

\* response.getN(): documents the update matched; one that is already sharded
\* matches too.
ModifiedCount(doc, shardId) == IF FilterMatches(doc, shardId) /\ ~doc.sharded THEN 1 ELSE 0
MatchedCount(doc, shardId) == IF FilterMatches(doc, shardId) THEN 1 ELSE 0

\* {$set: {sharded: true}}
SetShardedNoop(doc) == doc
SetShardedToggle(doc) == [doc EXCEPT !.sharded = ~@]
SetSharded(doc) == [doc EXCEPT !.sharded = TRUE]

\* response.getN() != 1: the call goes through the distributed lock.
NeverCreateFlow(matched) == matched > 1
NeedsCreateFlow(matched) == matched # 1

\* How an earlier call with request r, which passed the preconditions and has
\* returned, ended: "OK" if one succeeded, "failed" if all failed.
EarlierOutcome(c, r) ==
    LET earlier == {o \in Calls \ {c} : pc[o] = "done" /\ req[o] = r
                                         /\ status[o] \in {"OK", "LockBusy", "CatalogManagerError"}}
    IN IF \E o \in earlier : status[o] = "OK" THEN "OK"
       ELSE IF earlier # {} THEN "failed"
       ELSE "none"

\* The request a call runs, abbreviated.
DbOf(c) == req[c].db
ShardOf(c) == ShardIdOf(req[c].shardElem)

\* --------------------------------------------------------------- initially

TypeOK ==
    /\ clusterRole \in ClusterRoles
    /\ databases \in [DbNames -> Records \cup {NoRecord}]
    /\ distLock \in [DbNames -> Calls \cup {NoOwner, OtherHolder}]
    /\ cache \subseteq DbNames
    /\ pc \in [Calls -> {"idle", "update", "lock", "cmRead", "cmWrite", "unlock",
                         "audit", "purge", "done"}]
    /\ req \in [Calls -> Requests \cup {NoRequest}]
    /\ n \in [Calls -> 0..1]
    /\ audits \in [Calls -> Nat]
    /\ purges \in [Calls -> Nat]
    /\ cmCalls \in [Calls -> Nat]
    /\ repeat \in [Calls -> {"none", "OK", "failed"}]
    /\ expired \in [Calls -> BOOLEAN]
    /\ assigned \in [DbNames -> Nat]
    /\ before \in [Calls -> Records \cup {NoRecord}]

\* A database may exist, unsharded, from an earlier createDatabase.
Init ==
    /\ clusterRole \in ClusterRoles
    /\ databases \in [DbNames -> {NoRecord} \cup {d \in Records : ~d.sharded}]
    /\ \A d \in DbNames \ TargetDbs : databases[d] = NoRecord
    /\ distLock = [d \in DbNames |-> NoOwner]
    /\ cache = {}
    /\ pc = [c \in Calls |-> "idle"]
    /\ req = [c \in Calls |-> NoRequest]
    /\ status = [c \in Calls |-> "none"]
    /\ n = [c \in Calls |-> 0]
    /\ seen = [c \in Calls |-> NoRecord]
    /\ audits = [c \in Calls |-> 0]
    /\ purges = [c \in Calls |-> 0]
    /\ cmCalls = [c \in Calls |-> 0]
    /\ repeat = [c \in Calls |-> "none"]
    /\ expired = [c \in Calls |-> FALSE]
    /\ assigned = [d \in DbNames |-> 0]
    /\ before = [c \in Calls |-> NoRecord]

\* ----------------------------------------------------------------- actions

\* Variant: the scope guard is declared at the top of run(), ahead of the
\* uasserts, so a rejected request leaves through the purge.
InvokeGuardFirst(c, r) ==
    /\ pc[c] = "idle"
    /\ req' = [req EXCEPT ![c] = r]
    /\ LET e == Preconditions(clusterRole, r) IN
         /\ status' = [status EXCEPT ![c] = IF e = "OK" THEN "none" ELSE e]
         /\ pc' = [pc EXCEPT ![c] = IF e = "OK" THEN "update" ELSE "purge"]
    /\ repeat' = [repeat EXCEPT ![c] = EarlierOutcome(c, r)]
    /\ before' = [before EXCEPT ![c] = databases[r.db]]
    /\ UNCHANGED <<clusterRole, databases, distLock, cache, n, seen, audits,
                   purges, cmCalls, expired, assigned>>

\* A client sends the command: checkAuthForCommand and lines 100-134 of run().
\* A request that fails a precondition throws before the scope guard exists.
Invoke(c, r) ==
    /\ pc[c] = "idle"
    /\ req' = [req EXCEPT ![c] = r]
    /\ LET e == Preconditions(clusterRole, r) IN
         /\ status' = [status EXCEPT ![c] = IF e = "OK" THEN "none" ELSE e]
         /\ pc' = [pc EXCEPT ![c] = IF e = "OK" THEN "update" ELSE "done"]
    /\ repeat' = [repeat EXCEPT ![c] = EarlierOutcome(c, r)]
    /\ before' = [before EXCEPT ![c] = databases[r.db]]
    /\ UNCHANGED <<clusterRole, databases, distLock, cache, n, seen, audits,
                   purges, cmCalls, expired, assigned>>

\* Variant: the audit record is written right after the optimistic update.
OptimisticUpdateAudited(c) ==
    /\ pc[c] = "update"
    /\ LET d == DbOf(c)
           matched == MatchedCount(databases[d], ShardOf(c))
       IN /\ databases' = IF matched = 1
                            THEN [databases EXCEPT ![d] = SetSharded(@)]
                            ELSE databases
          /\ n' = [n EXCEPT ![c] = matched]
          /\ pc' = [pc EXCEPT ![c] = IF NeedsCreateFlow(matched) THEN "lock" ELSE "audit"]
    /\ audits' = [audits EXCEPT ![c] = @ + 1]
    /\ UNCHANGED <<clusterRole, distLock, cache, req, status, seen,
                   purges, cmCalls, repeat, expired, assigned, before>>

\* Variant: the update is an upsert, so a miss inserts the filter's fields
\* with sharded: true.
OptimisticUpdateUpsert(c) ==
    /\ pc[c] = "update"
    /\ LET d == DbOf(c)
           matched == MatchedCount(databases[d], ShardOf(c))
       IN /\ databases' = IF matched = 1
                            THEN [databases EXCEPT ![d] = SetSharded(@)]
                            ELSE IF ~databases[d].exists
                            THEN [databases EXCEPT ![d] =
                                    [primary |-> IF isValid(ShardOf(c)) THEN ShardOf(c) ELSE "-",
                                     sharded |-> TRUE, exists |-> TRUE]]
                            ELSE databases
          /\ n' = [n EXCEPT ![c] = matched]
          /\ pc' = [pc EXCEPT ![c] = IF NeedsCreateFlow(matched) THEN "lock" ELSE "audit"]
    /\ UNCHANGED <<clusterRole, distLock, cache, req, status, seen, audits,
                   purges, cmCalls, repeat, expired, assigned, before>>

\* Lines 139-158: the optimistic update of config.databases (multi and upsert
\* false), and the branch of line 162 on its matched count.
OptimisticUpdate(c) ==
    /\ pc[c] = "update"
    /\ LET d == DbOf(c)
           matched == MatchedCount(databases[d], ShardOf(c))
       IN /\ databases' = IF matched = 1
                            THEN [databases EXCEPT ![d] = SetSharded(@)]
                            ELSE databases
          /\ n' = [n EXCEPT ![c] = matched]
          /\ pc' = [pc EXCEPT ![c] = IF NeedsCreateFlow(matched) THEN "lock" ELSE "audit"]
    /\ UNCHANGED <<clusterRole, distLock, cache, req, status, seen, audits,
                   purges, cmCalls, repeat, expired, assigned, before>>

\* Variant: one lock for all names, granted when no name is locked.
LockAcquireGlobal(c) ==
    /\ pc[c] = "lock"
    /\ \A d \in DbNames : distLock[d] = NoOwner
    /\ distLock' = [distLock EXCEPT ![DbOf(c)] = c]
    /\ pc' = [pc EXCEPT ![c] = "cmRead"]
    /\ UNCHANGED <<clusterRole, databases, cache, req, status, n, seen, audits,
                   purges, cmCalls, repeat, expired, assigned, before>>

\* Variant: the lock is granted whoever holds it.
LockAcquireShared(c) ==
    /\ pc[c] = "lock"
    /\ distLock' = [distLock EXCEPT ![DbOf(c)] = c]
    /\ pc' = [pc EXCEPT ![c] = "cmRead"]
    /\ UNCHANGED <<clusterRole, databases, cache, req, status, n, seen, audits,
                   purges, cmCalls, repeat, expired, assigned, before>>

\* Line 163: DistLockManager::lock returns the lock.
LockAcquire(c) ==
    /\ pc[c] = "lock"
    /\ distLock[DbOf(c)] = NoOwner
    /\ distLock' = [distLock EXCEPT ![DbOf(c)] = c]
    /\ pc' = [pc EXCEPT ![c] = "cmRead"]
    /\ UNCHANGED <<clusterRole, databases, cache, req, status, n, seen, audits,
                   purges, cmCalls, repeat, expired, assigned, before>>

\* Variants: the scope guard is declared after the lock is taken, so a failed
\* acquisition leaves run() without the purge; the status of lock() is dropped
\* and the call goes on to the catalog manager.
LockTimeoutUnguarded(c) ==
    /\ pc[c] = "lock"
    /\ distLock[DbOf(c)] # NoOwner
    /\ status' = [status EXCEPT ![c] = "LockBusy"]
    /\ pc' = [pc EXCEPT ![c] = "done"]
    /\ UNCHANGED <<clusterRole, databases, distLock, cache, req, n, seen, audits,
                   purges, cmCalls, repeat, expired, assigned, before>>

\* Variant: lock() has no timeout and keeps waiting while the lock is held.
LockWaitForever(c) ==
    /\ pc[c] = "lock"
    /\ distLock[DbOf(c)] # NoOwner
    /\ UNCHANGED vars

\* Variant: after a failed acquisition the call tries the optimistic update
\* again.
LockTimeoutRetry(c) ==
    /\ pc[c] = "lock"
    /\ distLock[DbOf(c)] # NoOwner
    /\ pc' = [pc EXCEPT ![c] = "update"]
    /\ UNCHANGED <<clusterRole, databases, distLock, cache, req, status, n, seen,
                   audits, purges, cmCalls, repeat, expired, assigned, before>>

LockTimeoutIgnored(c) ==
    /\ pc[c] = "lock"
    /\ distLock[DbOf(c)] # NoOwner
    /\ pc' = [pc EXCEPT ![c] = "cmRead"]
    /\ UNCHANGED <<clusterRole, databases, distLock, cache, req, status, n, seen,
                   audits, purges, cmCalls, repeat, expired, assigned, before>>

\* Line 163: the lock stayed busy for kDefaultLockTimeout; uassertStatusOK throws.
LockTimeout(c) ==
    /\ pc[c] = "lock"
    /\ distLock[DbOf(c)] # NoOwner
    /\ status' = [status EXCEPT ![c] = "LockBusy"]
    /\ pc' = [pc EXCEPT ![c] = "purge"]
    /\ UNCHANGED <<clusterRole, databases, distLock, cache, req, n, seen, audits,
                   purges, cmCalls, repeat, expired, assigned, before>>

\* Line 166, first half: the catalog manager reads the database entry.
CatalogRead(c) ==
    /\ pc[c] = "cmRead"
    /\ seen' = [seen EXCEPT ![c] = databases[DbOf(c)]]
    /\ pc' = [pc EXCEPT ![c] = "cmWrite"]
    /\ cmCalls' = [cmCalls EXCEPT ![c] = @ + 1]
    /\ UNCHANGED <<clusterRole, databases, distLock, cache, req, status, n, audits,
                   purges, repeat, expired, assigned, before>>

\* Line 166, second half: the catalog manager decides on what it read and
\* writes one document: it creates the entry on shard s, or marks it sharded.
CatalogWrite(c, s) ==
    /\ pc[c] = "cmWrite"
    /\ LET d == DbOf(c)
           p == ShardOf(c)
       IN \/ /\ ~seen[c].exists
             /\ ~databases[d].exists
             /\ s = IF isValid(p) THEN p ELSE s
             /\ databases' = [databases EXCEPT ![d] =
                                 [primary |-> s, sharded |-> TRUE, exists |-> TRUE]]
             /\ assigned' = [assigned EXCEPT ![d] = @ + 1]
          \/ /\ seen[c].exists
             /\ isValid(p) => seen[c].primary = p
             /\ s = seen[c].primary
             /\ databases' = [databases EXCEPT ![d].sharded = TRUE]
             /\ UNCHANGED assigned
    /\ pc' = [pc EXCEPT ![c] = "unlock"]
    /\ UNCHANGED <<clusterRole, distLock, cache, req, status, n, seen, audits,
                   purges, cmCalls, repeat, expired, before>>

\* Line 166: the catalog manager throws (the entry is on another primary, the
\* insert hits an entry created meanwhile, no shard can be chosen, a fault).
CatalogError(c) ==
    /\ pc[c] = "cmWrite"
    /\ status' = [status EXCEPT ![c] = "CatalogManagerError"]
    /\ pc' = [pc EXCEPT ![c] = "unlock"]
    /\ UNCHANGED <<clusterRole, databases, distLock, cache, req, n, seen, audits,
                   purges, cmCalls, repeat, expired, assigned, before>>

\* Variant: dbDistLock is declared at the top of run(), ahead of the scope
\* guard, so it is still held when the audit record and the purge happen.
UnlockAfterPurge(c) ==
    /\ pc[c] = "unlock"
    /\ pc' = [pc EXCEPT ![c] = IF status[c] = "none" THEN "audit" ELSE "purge"]
    /\ UNCHANGED <<clusterRole, databases, distLock, cache, req, status, n, seen,
                   audits, purges, cmCalls, repeat, expired, assigned, before>>

\* Variant: the lock is released on the normal path only.
UnlockOnSuccessOnly(c) ==
    /\ pc[c] = "unlock"
    /\ distLock' = [distLock EXCEPT ![DbOf(c)] =
                       IF @ = c /\ status[c] = "none" THEN NoOwner ELSE @]
    /\ pc' = [pc EXCEPT ![c] = IF status[c] = "none" THEN "audit" ELSE "purge"]
    /\ expired' = [expired EXCEPT ![c] = FALSE]
    /\ UNCHANGED <<clusterRole, databases, cache, req, status, n, seen, audits,
                   purges, cmCalls, repeat, assigned, before>>

\* Line 167: dbDistLock leaves scope, by the closing brace or by unwinding.
Unlock(c) ==
    /\ pc[c] = "unlock"
    /\ distLock' = [distLock EXCEPT ![DbOf(c)] = IF @ = c THEN NoOwner ELSE @]
    /\ pc' = [pc EXCEPT ![c] = IF status[c] = "none" THEN "audit" ELSE "purge"]
    /\ expired' = [expired EXCEPT ![c] = FALSE]
    /\ UNCHANGED <<clusterRole, databases, cache, req, status, n, seen, audits,
                   purges, cmCalls, repeat, assigned, before>>

\* Lines 169-171: audit::logEnableSharding, then return true.
Audit(c) ==
    /\ pc[c] = "audit"
    /\ audits' = [audits EXCEPT ![c] = @ + 1]
    /\ status' = [status EXCEPT ![c] = "OK"]
    /\ pc' = [pc EXCEPT ![c] = "purge"]
    /\ UNCHANGED <<clusterRole, databases, distLock, cache, req, n, seen, purges,
                   cmCalls, repeat, expired, assigned, before>>

\* Line 134: the ON_BLOCK_EXIT guard runs purgeDatabase as run() is left, and
\* the reply (or the exception) reaches the client.
Purge(c) ==
    /\ pc[c] = "purge"
    /\ cache' = cache \ {DbOf(c)}
    /\ purges' = [purges EXCEPT ![c] = @ + 1]
    /\ pc' = [pc EXCEPT ![c] = "done"]
    /\ UNCHANGED <<clusterRole, databases, distLock, req, status, n, seen, audits,
                   cmCalls, repeat, expired, assigned, before>>

\* The client has its reply; the connection can send the next command.
Return(c) ==
    /\ pc[c] = "done"
    /\ pc' = [pc EXCEPT ![c] = "idle"]
    /\ req' = [req EXCEPT ![c] = NoRequest]
    /\ status' = [status EXCEPT ![c] = "none"]
    /\ n' = [n EXCEPT ![c] = 0]
    /\ seen' = [seen EXCEPT ![c] = NoRecord]
    /\ audits' = [audits EXCEPT ![c] = 0]
    /\ purges' = [purges EXCEPT ![c] = 0]
    /\ cmCalls' = [cmCalls EXCEPT ![c] = 0]
    /\ repeat' = [repeat EXCEPT ![c] = "none"]
    /\ before' = [before EXCEPT ![c] = NoRecord]
    /\ UNCHANGED <<clusterRole, databases, distLock, cache, expired, assigned>>

\* The lock manager lets a lock lapse after its timeout, whatever its holder does.
Expire(d) ==
    /\ distLock[d] # NoOwner
    /\ distLock' = [distLock EXCEPT ![d] = NoOwner]
    /\ expired' = IF distLock[d] \in Calls
                     THEN [expired EXCEPT ![distLock[d]] = TRUE]
                     ELSE expired
    /\ UNCHANGED <<clusterRole, databases, cache, pc, req, status, n, seen, audits,
                   purges, cmCalls, repeat, assigned, before>>

\* A router-side read loads the entry of an existing database into the cache.
Refresh(d) ==
    /\ databases[d].exists
    /\ d \notin cache
    /\ cache' = cache \cup {d}
    /\ UNCHANGED <<clusterRole, databases, distLock, pc, req, status, n, seen,
                   audits, purges, cmCalls, repeat, expired, assigned, before>>

\* Some step of call c inside run().
CallStep(c) ==
    \/ OptimisticUpdate(c)
    \/ LockAcquire(c)
    \/ LockTimeout(c)
    \/ CatalogRead(c)
    \/ \E s \in Shards : CatalogWrite(c, s)
    \/ CatalogError(c)
    \/ Unlock(c)
    \/ Audit(c)
    \/ Purge(c)

Next ==
    \/ \E c \in Calls, r \in SpecRequests : Invoke(c, r)
    \/ \E c \in Calls : OptimisticUpdate(c)
    \/ \E c \in Calls : LockAcquire(c)
    \/ \E c \in Calls : LockTimeout(c)
    \/ \E c \in Calls : CatalogRead(c)
    \/ \E c \in Calls, s \in Shards : CatalogWrite(c, s)
    \/ \E c \in Calls : CatalogError(c)
    \/ \E c \in Calls : Unlock(c)
    \/ \E c \in Calls : Audit(c)
    \/ \E c \in Calls : Purge(c)
    \/ \E c \in Calls : Return(c)
    \/ \E d \in DbNames : Expire(d)
    \/ \E d \in DbNames : Refresh(d)

Spec == Init /\ [][Next]_vars

\* Clients that name either user database, on a config server, with requests
\* that pass every precondition; only the databases of TargetDbs may exist
\* at the start.
TwoDbRequests ==
    {r \in Requests : /\ r.auth
                      /\ r.wMode = kMajority
                      /\ r.db \in UserDbNames
                      /\ r.shardElem \in {NoElem} \cup Shards}

InitTwoDbs ==
    /\ clusterRole = ConfigServer
    /\ databases \in [DbNames -> {NoRecord} \cup {d \in Records : ~d.sharded}]
    /\ \A d \in DbNames \ TargetDbs : databases[d] = NoRecord
    /\ distLock = [d \in DbNames |-> NoOwner]
    /\ cache = {}
    /\ pc = [c \in Calls |-> "idle"]
    /\ req = [c \in Calls |-> NoRequest]
    /\ status = [c \in Calls |-> "none"]
    /\ n = [c \in Calls |-> 0]
    /\ seen = [c \in Calls |-> NoRecord]
    /\ audits = [c \in Calls |-> 0]
    /\ purges = [c \in Calls |-> 0]
    /\ cmCalls = [c \in Calls |-> 0]
    /\ repeat = [c \in Calls |-> "none"]
    /\ expired = [c \in Calls |-> FALSE]
    /\ assigned = [d \in DbNames |-> 0]
    /\ before = [c \in Calls |-> NoRecord]

NextTwoDbs ==
    \/ \E c \in Calls, r \in TwoDbRequests : Invoke(c, r)
    \/ \E c \in Calls : OptimisticUpdate(c)
    \/ \E c \in Calls : LockAcquire(c)
    \/ \E c \in Calls : LockTimeout(c)
    \/ \E c \in Calls : CatalogRead(c)
    \/ \E c \in Calls, s \in Shards : CatalogWrite(c, s)
    \/ \E c \in Calls : CatalogError(c)
    \/ \E c \in Calls : Unlock(c)
    \/ \E c \in Calls : Audit(c)
    \/ \E c \in Calls : Purge(c)
    \/ \E c \in Calls : Return(c)
    \/ \E d \in DbNames : Expire(d)
    \/ \E d \in DbNames : Refresh(d)

SpecTwoDbs == InitTwoDbs /\ [][NextTwoDbs]_vars

\* Another operation takes the lock of a database and keeps it; only expiry
\* frees it.
OtherLock(d) ==
    /\ distLock[d] = NoOwner
    /\ distLock' = [distLock EXCEPT ![d] = OtherHolder]
    /\ UNCHANGED <<clusterRole, databases, cache, pc, req, status, n, seen, audits,
                   purges, cmCalls, repeat, expired, assigned, before>>

\* Requests for the target database that pass every precondition.
FairRequests == {r \in TwoDbRequests : r.db \in TargetDbs}

NextFair ==
    \/ \E c \in Calls, r \in FairRequests : Invoke(c, r)
    \/ \E c \in Calls : CallStep(c)
    \/ \E c \in Calls : Return(c)
    \/ \E d \in TargetDbs : OtherLock(d)
    \/ \E d \in DbNames : Expire(d)
    \/ \E d \in DbNames : Refresh(d)

\* The thread that runs a call keeps running: the store and the catalog
\* manager answer, and lock() returns the lock or, after kDefaultLockTimeout,
\* its error. Nothing obliges a lock to expire or a client to call.
SpecFair ==
    /\ InitTwoDbs
    /\ [][NextFair]_vars
    /\ \A c \in Calls : WF_vars(CallStep(c))

\* ------------------------------------------------------------- properties

\* The call has passed every precondition of its request.
Passed(c) == pc[c] # "idle" /\ Preconditions(clusterRole, req[c]) = "OK"

\* The step returns call c to its client.
Returns(c) == pc[c] # "done" /\ pc'[c] = "done"

\* C1, as stated: whatever the outcome of a call (validation error included),
\* the catalog cache holds no entry for its dbName right after it returns.
InvalidationOnEveryOutcome ==
    [][\A c \in Calls : Returns(c) => req'[c].db \notin cache']_vars

\* C1, amended: a call that passed its preconditions, whatever its outcome
\* (success, lock timeout, catalog manager error), leaves no cache entry for
\* its dbName in the state right after it returns.
InvalidationAfterPreconditions ==
    [][\A c \in Calls :
          Returns(c) /\ Preconditions(clusterRole, req'[c]) = "OK"
             => req'[c].db \notin cache']_vars

\* Two calls have returned with a lock timeout and a catalog manager error,
\* each after one purge, and the cache has no entry for their database.
InvalidationWitness ==
    \E c1, c2 \in Calls :
       /\ pc[c1] = "done" /\ status[c1] = "LockBusy" /\ purges[c1] = 1
       /\ pc[c2] = "done" /\ status[c2] = "CatalogManagerError" /\ purges[c2] = 1
       /\ DbOf(c1) = DbOf(c2)
       /\ DbOf(c1) \notin cache

\* Every call slot has returned from a call for d with one and the same
\* primaryShard argument, each past its preconditions.
AllReturned(d) ==
    /\ \A c \in Calls : pc[c] = "done" /\ Passed(c) /\ DbOf(c) = d
    /\ \A c1, c2 \in Calls : req[c1].shardElem = req[c2].shardElem

\* d had no document when the system started.
InitiallyAbsent(d) == ~databases[d].exists \/ assigned[d] >= 1

\* C2, as stated: once N concurrent calls for an absent dbName have all
\* returned, there is one document for it, sharded, its primary assigned once.
ConcurrentCallsCreateOne ==
    \A d \in UserDbNames :
       AllReturned(d) /\ InitiallyAbsent(d)
          => databases[d].exists /\ databases[d].sharded /\ assigned[d] = 1

\* C2, amended: once N concurrent calls for an absent dbName have all
\* returned, its primary was assigned at most once, and if at least one of the
\* calls returned success there is one document for it, sharded, its primary
\* assigned exactly once.
ConcurrentCallsCreateOneOnSuccess ==
    \A d \in UserDbNames :
       AllReturned(d) /\ InitiallyAbsent(d)
          => /\ assigned[d] <= 1
             /\ (\E c \in Calls : status[c] = "OK")
                   => databases[d].exists /\ databases[d].sharded /\ assigned[d] = 1

\* All calls missed in phase 1, went through the lock one after the other and
\* returned success; the first of them created the document.
ConcurrentCallsWitness ==
    \E d \in UserDbNames :
       /\ AllReturned(d)
       /\ assigned[d] = 1
       /\ \A c \in Calls : status[c] = "OK" /\ n[c] = 0
       /\ \E c \in Calls : ~seen[c].exists

\* C3, as stated: of two calls in sequence with the same arguments, the second
\* returns success and finds the database sharded (so did the first).
IdempotentAlways ==
    \A c \in Calls :
       pc[c] = "done" /\ repeat[c] # "none"
          => status[c] = "OK" /\ databases[DbOf(c)].sharded

\* C3, amended: a call that returns success leaves sharded == true; a call
\* run after a call with the same arguments returned success also returns
\* success, its phase-1 update matches with count 1, and none of its steps
\* changes a document.
IdempotentAfterSuccess ==
    /\ [](\A c \in Calls :
            /\ pc[c] = "done" /\ status[c] = "OK" => databases[DbOf(c)].sharded
            /\ pc[c] = "done" /\ repeat[c] = "OK"
                 => status[c] = "OK" /\ n[c] = 1 /\ cmCalls[c] = 0)
    /\ [][\A c \in Calls :
             repeat[c] = "OK" /\ pc'[c] # pc[c] => databases' = databases]_vars

\* A call has returned success with matched count 1 after a call with the same
\* arguments had created the database and returned success.
IdempotentWitness ==
    \E c, o \in Calls :
       /\ pc[c] = "done" /\ repeat[c] = "OK" /\ status[c] = "OK" /\ n[c] = 1
       /\ pc[o] = "done" /\ req[o] = req[c] /\ status[o] = "OK" /\ n[o] = 0
       /\ ~seen[o].exists

\* C4: a call that has returned success leaves a document for its dbName with
\* sharded == true, has purged the cache once and has written one audit
\* record; if it found no document and named no shard, the document was
\* created by the catalog manager on a shard of the cluster.
SuccessPostcondition ==
    \A c \in Calls :
       pc[c] = "done" /\ status[c] = "OK"
          => /\ databases[DbOf(c)].exists
             /\ databases[DbOf(c)].sharded
             /\ purges[c] = 1
             /\ audits[c] = 1
             /\ (n[c] = 0 /\ ~seen[c].exists /\ req[c].shardElem = NoElem)
                   => /\ cmCalls[c] = 1
                      /\ assigned[DbOf(c)] = 1
                      /\ databases[DbOf(c)].primary \in Shards

\* Scenario A: dbName absent, no primaryShard given, the call returned success.
SuccessWitness ==
    \E c \in Calls :
       /\ pc[c] = "done" /\ status[c] = "OK"
       /\ n[c] = 0 /\ ~seen[c].exists /\ req[c].shardElem = NoElem
       /\ databases[DbOf(c)].sharded

\* The request violates a precondition of section 4.1, in no particular order.
Rejected(role, r) ==
    \/ ~r.auth
    \/ role # ConfigServer
    \/ r.wMode # kMajority
    \/ r.db \in {BadDbName, kAdminDb, kLocalDb}
    \/ r.shardElem \notin {NoElem} \cup Shards

\* C5: a call rejected by authorization or by a precondition returns an error
\* at once: it writes no document, takes no lock and does not call the catalog
\* manager, so documents and locks are what they were.
RejectedCallsChangeNothing ==
    [][\A c \in Calls :
          (pc'[c] # pc[c] /\ pc'[c] # "idle" /\ Rejected(clusterRole, req'[c]))
             => /\ pc'[c] = "done"
                /\ status'[c] \notin {"none", "OK"}
                /\ databases' = databases
                /\ distLock' = distLock
                /\ cmCalls'[c] = 0]_vars

\* Scenario D: a call for a user database without majority write concern was
\* rejected while the database has a document that is not sharded.
RejectedWitness ==
    \E c \in Calls :
       /\ pc[c] = "done" /\ status[c] = "InvalidOptions.writeConcern"
       /\ req[c].auth /\ DbOf(c) \in UserDbNames
       /\ databases[DbOf(c)].exists /\ ~databases[DbOf(c)].sharded

\* C6, as stated: every call for the admin or local database (by an authorized
\* caller, on a config server) fails with the reserved-name error, whatever
\* its durability and primary-shard arguments.
ReservedNameAlwaysWins ==
    \A c \in Calls :
       /\ pc[c] # "idle" /\ DbOf(c) \in {kAdminDb, kLocalDb}
       /\ req[c].auth /\ clusterRole = ConfigServer
          => pc[c] = "done" /\ status[c] = "InvalidOptions.cantShard"

\* C6, amended: every call for the admin or local database fails before any
\* mutation; it fails with the reserved-name error exactly when the caller is
\* authorized, the node is a config server, the write concern is majority and
\* the primary-shard argument is absent or valid, and otherwise with the error
\* of that earlier check.
ReservedNameRejected ==
    \A c \in Calls :
       pc[c] # "idle" /\ DbOf(c) \in {kAdminDb, kLocalDb}
          => /\ pc[c] = "done"
             /\ n[c] = 0 /\ cmCalls[c] = 0 /\ purges[c] = 0
             /\ databases[DbOf(c)] = NoRecord
             /\ distLock[DbOf(c)] = NoOwner
             /\ status[c] =
                  IF ~req[c].auth THEN "Unauthorized"
                  ELSE IF clusterRole # ConfigServer THEN "IllegalOperation"
                  ELSE IF req[c].wMode # kMajority THEN "InvalidOptions.writeConcern"
                  ELSE IF req[c].shardElem \notin {NoElem} \cup Shards THEN "BadValue"
                  ELSE "InvalidOptions.cantShard"

\* Scenario C, and a call for the local database with an invalid shard name
\* that was rejected for the shard name.
ReservedNameWitness ==
    \E c1, c2 \in Calls :
       /\ pc[c1] = "done" /\ DbOf(c1) = kAdminDb
       /\ status[c1] = "InvalidOptions.cantShard"
       /\ pc[c2] = "done" /\ DbOf(c2) = kLocalDb /\ req[c2].shardElem = ""
       /\ status[c2] = "BadValue"

\* The error section 4.1 gives a request: authorization, role, durability,
\* dbName, primary shard id, the first violated one winning.
ErrorInSpecOrder(role, r) ==
    CASE ~r.auth -> "Unauthorized"
      [] r.auth /\ role # ConfigServer -> "IllegalOperation"
      [] r.auth /\ role = ConfigServer /\ r.wMode # kMajority -> "InvalidOptions"
      [] r.auth /\ role = ConfigServer /\ r.wMode = kMajority /\ r.db = BadDbName
            -> "InvalidNamespace"
      [] r.auth /\ role = ConfigServer /\ r.wMode = kMajority
            /\ r.db \in {kAdminDb, kLocalDb} -> "InvalidOptions"
      [] OTHER -> IF r.shardElem \notin {NoElem} \cup Shards THEN "BadValue" ELSE "OK"

\* The same with the primary shard id checked ahead of the dbName.
ErrorInSourceOrder(role, r) ==
    CASE ~r.auth -> "Unauthorized"
      [] r.auth /\ role # ConfigServer -> "IllegalOperation"
      [] r.auth /\ role = ConfigServer /\ r.wMode # kMajority -> "InvalidOptions"
      [] r.auth /\ role = ConfigServer /\ r.wMode = kMajority
            /\ r.shardElem \notin {NoElem} \cup Shards -> "BadValue"
      [] OTHER -> IF r.db = BadDbName THEN "InvalidNamespace"
                  ELSE IF r.db \in {kAdminDb, kLocalDb} THEN "InvalidOptions"
                  ELSE "OK"

\* C7, as stated: a call that violates preconditions returns the error of the
\* first violated one in the order authorization, role, durability, dbName,
\* primary shard id.
PreconditionSpecOrder ==
    \A c \in Calls :
       pc[c] # "idle" /\ ErrorInSpecOrder(clusterRole, req[c]) # "OK"
          => pc[c] = "done" /\ Code(status[c]) = ErrorInSpecOrder(clusterRole, req[c])

\* C7, amended: a call that violates preconditions returns the error of the
\* first violated one in the order authorization, role, durability, primary
\* shard id (BadValue), dbName (InvalidNamespace, then InvalidOptions for a
\* reserved name); an invalid dbName together with an invalid shard id yields
\* BadValue.
PreconditionSourceOrder ==
    \A c \in Calls :
       pc[c] # "idle"
          => IF ErrorInSourceOrder(clusterRole, req[c]) # "OK"
               THEN pc[c] = "done"
                    /\ Code(status[c]) = ErrorInSourceOrder(clusterRole, req[c])
               ELSE status[c] \in {"none", "OK", "LockBusy", "CatalogManagerError"}

\* A call with an invalid dbName and an invalid shard id was rejected.
PreconditionOrderWitness ==
    \E c \in Calls :
       /\ pc[c] = "done" /\ req[c].auth /\ req[c].wMode = kMajority
       /\ clusterRole = ConfigServer
       /\ DbOf(c) = BadDbName /\ req[c].shardElem = ""
       /\ status[c] = "BadValue"

\* C8: a call that has left phase 2 (by success, by a catalog manager error
\* or fault) holds no lock; in particular a call that has returned holds none.
LockReleasedOnExit ==
    \A c \in Calls, d \in DbNames :
       pc[c] \in {"idle", "update", "lock", "audit", "purge", "done"}
          => distLock[d] # c

\* A call took the lock, got an error from the catalog manager and returned;
\* the lock of its database is free.
LockReleasedWitness ==
    \E c \in Calls :
       /\ pc[c] = "done" /\ status[c] = "CatalogManagerError" /\ cmCalls[c] = 1
       /\ distLock[DbOf(c)] = NoOwner

\* The call is inside ShardingCatalogManager::enableSharding.
InCatalogManager(c) == pc[c] \in {"cmRead", "cmWrite"}

\* C9, as stated: a call inside the catalog manager holds the live lock of its
\* dbName, also after locks expired, so at most one call per dbName is inside.
CatalogManagerUnderLiveLock ==
    /\ \A c \in Calls : InCatalogManager(c) => distLock[DbOf(c)] = c
    /\ \A c1, c2 \in Calls :
          InCatalogManager(c1) /\ InCatalogManager(c2) /\ DbOf(c1) = DbOf(c2)
             => c1 = c2

\* C9, amended: a call inside the catalog manager took the lock of its dbName
\* and holds it unless the lock expired meanwhile; a call whose lock
\* acquisition failed never calls the catalog manager; at most one call per
\* dbName whose lock has not expired is inside the catalog manager.
CatalogManagerUnderLock ==
    /\ \A c \in Calls : InCatalogManager(c) => distLock[DbOf(c)] = c \/ expired[c]
    /\ \A c \in Calls : status[c] = "LockBusy" => cmCalls[c] = 0
    /\ \A c1, c2 \in Calls :
          InCatalogManager(c1) /\ InCatalogManager(c2) /\ DbOf(c1) = DbOf(c2)
             => c1 = c2 \/ expired[c1] \/ expired[c2]

\* One call is inside the catalog manager under its lock while another call
\* for the same database has given up on the lock.
CatalogManagerWitness ==
    \E c1, c2 \in Calls :
       /\ pc[c1] = "cmWrite" /\ distLock[DbOf(c1)] = c1 /\ ~expired[c1]
       /\ DbOf(c2) = DbOf(c1) /\ status[c2] = "LockBusy" /\ cmCalls[c2] = 0

\* C10: a call that has returned success wrote exactly one audit record, a
\* call that has returned an error (precondition, lock, catalog manager) none.
AuditOnSuccessOnly ==
    \A c \in Calls :
       /\ pc[c] = "done" /\ status[c] = "OK" => audits[c] = 1
       /\ pc[c] = "done" /\ status[c] # "OK" => audits[c] = 0
       /\ status[c] \in {"LockBusy", "CatalogManagerError"} => audits[c] = 0

\* One call returned success with its audit record, another returned the
\* catalog manager's error without one.
AuditWitness ==
    \E c1, c2 \in Calls :
       /\ pc[c1] = "done" /\ status[c1] = "OK" /\ audits[c1] = 1
       /\ pc[c2] = "done" /\ status[c2] = "CatalogManagerError" /\ audits[c2] = 0

\* The document of the call's dbName exists and the call names no primary
\* shard or the one the document has.
FastPathApplies(c) ==
    /\ databases[DbOf(c)].exists
    /\ req[c].shardElem = NoElem \/ req[c].shardElem = databases[DbOf(c)].primary

\* C11: when the document exists and no primary shard or the document's own is
\* requested, the phase-1 update matches with count 1 and leaves the document
\* sharded with its primary unchanged; a call whose update matched goes on to
\* the audit record and returns success, never takes a lock and never calls
\* the catalog manager.
OptimisticFastPath ==
    /\ [][\A c \in Calls :
             pc[c] = "update" /\ pc'[c] # "update" /\ FastPathApplies(c)
                => /\ n'[c] = 1
                   /\ databases' = [databases EXCEPT ![DbOf(c)] =
                         [primary |-> databases[DbOf(c)].primary,
                          sharded |-> TRUE, exists |-> TRUE]]
                   /\ pc'[c] = "audit"
                   /\ distLock' = distLock]_vars
    /\ [](\A c \in Calls :
            n[c] = 1
               => /\ pc[c] \in {"audit", "purge", "done"}
                  /\ cmCalls[c] = 0
                  /\ seen[c] = NoRecord
                  /\ \A d \in DbNames : distLock[d] # c
                  /\ status[c] \in {"none", "OK"}
                  /\ pc[c] = "done" => status[c] = "OK"
                  /\ databases[DbOf(c)].exists /\ databases[DbOf(c)].sharded)

\* Scenario B: a database that existed unsharded; one call without a primary
\* shard and one naming the document's primary both matched and returned
\* success, neither through the catalog manager.
OptimisticFastPathWitness ==
    \E c1, c2 \in Calls :
       /\ pc[c1] = "done" /\ status[c1] = "OK" /\ n[c1] = 1 /\ cmCalls[c1] = 0
       /\ req[c1].shardElem = NoElem
       /\ pc[c2] = "done" /\ status[c2] = "OK" /\ n[c2] = 1 /\ cmCalls[c2] = 0
       /\ DbOf(c2) = DbOf(c1)
       /\ req[c2].shardElem = databases[DbOf(c2)].primary
       /\ assigned[DbOf(c1)] = 0

\* Two distinct calls for the same dbName, absent when the system started,
\* with the same primaryShard argument, both of which missed in phase 1.
BothMissed(c1, c2) ==
    /\ c1 # c2
    /\ Passed(c1) /\ Passed(c2)
    /\ DbOf(c1) = DbOf(c2) /\ req[c1].shardElem = req[c2].shardElem
    /\ InitiallyAbsent(DbOf(c1))
    /\ pc[c1] \notin {"idle", "update"} /\ n[c1] = 0
    /\ pc[c2] \notin {"idle", "update"} /\ n[c2] = 0

\* The catalog manager invocation of the call has returned without an error.
CatalogManagerReturned(c) ==
    cmCalls[c] = 1 /\ pc[c] \in {"unlock", "audit", "purge", "done"}
                   /\ status[c] \in {"none", "OK"}

\* C12, as stated: two calls for an absent dbName that both missed in phase 1
\* are never inside the catalog manager together, and once both have been
\* through it, one of them has created the document and neither has an error.
SerializedCreationAlways ==
    \A c1, c2 \in Calls :
       BothMissed(c1, c2)
          => /\ ~(InCatalogManager(c1) /\ InCatalogManager(c2))
             /\ (cmCalls[c1] = 1 /\ cmCalls[c2] = 1 /\ pc[c1] = "done" /\ pc[c2] = "done")
                   => /\ assigned[DbOf(c1)] = 1
                      /\ status[c1] = "OK" /\ status[c2] = "OK"

\* C12, amended: two calls for an absent dbName that both missed in phase 1
\* are inside the catalog manager together only if the lock of one of them
\* expired; at most one of them creates the document; when the catalog manager
\* has returned to both without an error, exactly one created the document and
\* the other read it as existing and sharded; a catalog manager that reads
\* after the creation reads the document as existing and sharded.
SerializedCreation ==
    /\ [](\A c1, c2 \in Calls :
            BothMissed(c1, c2)
               => /\ (InCatalogManager(c1) /\ InCatalogManager(c2))
                        => expired[c1] \/ expired[c2]
                  /\ assigned[DbOf(c1)] <= 1
                  /\ (CatalogManagerReturned(c1) /\ CatalogManagerReturned(c2))
                        => /\ assigned[DbOf(c1)] = 1
                           /\ seen[c1].exists # seen[c2].exists
                           /\ seen[c1].exists => seen[c1].sharded
                           /\ seen[c2].exists => seen[c2].sharded)
    /\ [][\A c \in Calls :
             pc[c] = "cmRead" /\ pc'[c] = "cmWrite" /\ assigned[DbOf(c)] = 1
                => seen'[c].exists /\ seen'[c].sharded]_vars

\* Scenario E: two calls without a primary shard missed in phase 1; the first
\* through the lock created the document, the second read it as sharded, and
\* both returned success.
SerializedCreationWitness ==
    \E c1, c2 \in Calls :
       /\ BothMissed(c1, c2) /\ req[c1].shardElem = NoElem
       /\ pc[c1] = "done" /\ status[c1] = "OK" /\ ~seen[c1].exists
       /\ pc[c2] = "done" /\ status[c2] = "OK" /\ seen[c2].exists /\ seen[c2].sharded
       /\ assigned[DbOf(c1)] = 1
       /\ distLock[DbOf(c1)] = NoOwner

\* C13: no step resets sharded to false or deletes a document: a document that
\* exists still exists (under the same name) after every step, and one that is
\* sharded is still sharded after every step.
MonotonicRecordState ==
    [][\A d \in DbNames :
          /\ databases[d].exists => databases'[d].exists
          /\ databases[d].exists /\ databases[d].sharded => databases'[d].sharded]_vars

\* A call started after a call with the same request had created the database
\* and returned success; it has returned itself, success or not, and the
\* document is still there and still sharded.
MonotonicRecordWitness ==
    \E c \in Calls :
       /\ pc[c] = "done" /\ repeat[c] = "OK" /\ n[c] = 1
       /\ assigned[DbOf(c)] = 1
       /\ databases[DbOf(c)].exists /\ databases[DbOf(c)].sharded

\* doc is a complete document as a successful call leaves it when it started
\* from b: it exists, is sharded, and lives on a registered shard, the one of
\* b if b existed.
CompleteRecord(b, doc) ==
    /\ doc \in Records
    /\ doc.sharded
    /\ b.exists => doc.primary = b.primary

\* C14: after a call that returned an error, the document of its dbName is
\* what it was when the call started or a complete document as a successful
\* call leaves it; no state holds a partially written document (one created
\* without sharded == true, or without a primary); no step of a call that
\* fails or has failed writes.
AtomicFailure ==
    /\ [](\A c \in Calls :
            pc[c] = "done" /\ status[c] # "OK"
               => \/ databases[DbOf(c)] = before[c]
                  \/ CompleteRecord(before[c], databases[DbOf(c)]))
    /\ [](\A d \in DbNames :
            /\ databases[d] \in Records \cup {NoRecord}
            /\ assigned[d] >= 1 => databases[d].exists /\ databases[d].sharded)
    /\ [][\A c \in Calls :
             pc'[c] # pc[c] /\ status'[c] \notin {"none", "OK"}
                => databases' = databases]_vars

\* One call got the catalog manager's error and left the document as it found
\* it; another gave up on the lock and returned to a document that a
\* successful call had marked sharded meanwhile.
AtomicFailureWitness ==
    \E c1, c2 \in Calls :
       /\ pc[c1] = "done" /\ status[c1] = "CatalogManagerError"
       /\ before[c1].exists /\ databases[DbOf(c1)] = before[c1]
       /\ pc[c2] = "done" /\ status[c2] = "LockBusy" /\ DbOf(c2) = DbOf(c1)
       /\ before[c2].exists /\ ~before[c2].sharded
       /\ databases[DbOf(c2)] = [before[c2] EXCEPT !.sharded = TRUE]

\* C15: a call for A is never blocked by a call for B # A: a call inside
\* run() always has a step it can take; at the lock it is granted the lock
\* exactly when the lock of its own dbName is free and refused exactly when
\* that lock is held, whatever the locks of other names; and no step of a call
\* touches the document or the lock of another name.
IndependentDatabases ==
    /\ [](\A c \in Calls :
            /\ pc[c] \notin {"idle", "done"} => ENABLED CallStep(c)
            /\ pc[c] = "lock"
                 => /\ ENABLED LockAcquire(c) <=> distLock[DbOf(c)] = NoOwner
                    /\ ENABLED LockTimeout(c) <=> distLock[DbOf(c)] # NoOwner)
    /\ [][\A c \in Calls, d \in DbNames :
             pc'[c] # pc[c] /\ pc[c] \notin {"idle", "done"} /\ d # DbOf(c)
                => databases'[d] = databases[d] /\ distLock'[d] = distLock[d]]_vars

\* Two calls for different databases hold the locks of their databases at the
\* same time, both inside the catalog manager, and neither lock has expired.
IndependentDatabasesWitness ==
    \E c1, c2 \in Calls :
       /\ DbOf(c1) \in UserDbNames /\ DbOf(c2) \in UserDbNames
       /\ DbOf(c1) # DbOf(c2)
       /\ pc[c1] = "cmWrite" /\ distLock[DbOf(c1)] = c1 /\ ~expired[c1]
       /\ pc[c2] = "cmRead" /\ distLock[DbOf(c2)] = c2 /\ ~expired[c2]

\* C16: a call that passed its preconditions has purged the cache exactly once
\* when it returns, whatever its outcome, and not before the guarded block is
\* left; a call rejected by authorization or by a precondition never purges.
PurgeScope ==
    \A c \in Calls :
       /\ pc[c] = "done" /\ Preconditions(clusterRole, req[c]) = "OK" => purges[c] = 1
       /\ pc[c] = "done" /\ Preconditions(clusterRole, req[c]) # "OK" => purges[c] = 0
       /\ pc[c] # "done" => purges[c] = 0

\* An unauthorized call has returned without a purge, and a call that ended
\* with the catalog manager's error has returned after one purge.
PurgeScopeWitness ==
    \E c1, c2 \in Calls :
       /\ pc[c1] = "done" /\ status[c1] = "Unauthorized" /\ purges[c1] = 0
       /\ DbOf(c1) \in UserDbNames
       /\ pc[c2] = "done" /\ status[c2] = "CatalogManagerError" /\ purges[c2] = 1

\* The document of the call's dbName exists on a primary other than the valid
\* shard id the call names.
PrimaryMismatch(c) ==
    /\ databases[DbOf(c)].exists
    /\ req[c].shardElem \in Shards
    /\ req[c].shardElem # databases[DbOf(c)].primary

\* C17: with a document on primary P1 and a request for a valid P2 # P1, the
\* phase-1 update matches nothing and leaves the document alone, and the call
\* goes on to the lock without an error of its own; a call at the lock either
\* takes it and calls the catalog manager with its dbName and P2, or fails
\* with the lock's error; the coordinator raises no conflict error.
PrimaryMismatchAsAbsence ==
    /\ [][\A c \in Calls :
             pc[c] = "update" /\ pc'[c] # "update" /\ PrimaryMismatch(c)
                => /\ n'[c] = 0
                   /\ databases' = databases
                   /\ pc'[c] = "lock"
                   /\ status'[c] = "none"]_vars
    /\ [][\A c \in Calls :
             /\ pc[c] = "lock" /\ pc'[c] # "lock"
                  => \/ pc'[c] = "cmRead" /\ distLock'[DbOf(c)] = c /\ status'[c] = "none"
                     \/ pc'[c] = "purge" /\ status'[c] = "LockBusy"
             /\ pc[c] = "cmRead" /\ pc'[c] # "cmRead"
                  => /\ pc'[c] = "cmWrite"
                     /\ cmCalls'[c] = cmCalls[c] + 1
                     /\ req'[c] = req[c]
                     /\ seen'[c] = databases[DbOf(c)]]_vars
    /\ [](\A c \in Calls :
            Passed(c) => status[c] \in {"none", "OK", "LockBusy", "CatalogManagerError"})

\* A call that names shard P2 for a database on P1 missed in phase 1, holds
\* the lock and is inside the catalog manager, which has read the document on
\* P1; the document is as it was when the call started.
PrimaryMismatchWitness ==
    \E c \in Calls :
       /\ pc[c] = "cmWrite" /\ n[c] = 0 /\ cmCalls[c] = 1
       /\ distLock[DbOf(c)] = c
       /\ req[c].shardElem \in Shards
       /\ before[c].exists /\ before[c].primary # req[c].shardElem
       /\ seen[c] = before[c] /\ databases[DbOf(c)] = before[c]

\* The order of the positions of run(): phase 1, the lock, the catalog
\* manager, the release, the audit record, the purge, the return.
PhaseRank(p) ==
    CASE p = "idle" -> 0
      [] p = "update" -> 1
      [] p = "lock" -> 2
      [] p = "cmRead" -> 3
      [] p = "cmWrite" -> 4
      [] p = "unlock" -> 5
      [] p = "audit" -> 6
      [] p = "purge" -> 7
      [] p = "done" -> 8

\* C18: within one call every step moves to a later position, so the call
\* makes at most one phase-1 update, at most one lock acquisition and at most
\* one catalog manager invocation, in that order; a call whose lock
\* acquisition or catalog manager invocation failed only releases, purges and
\* returns.
SingleFallback ==
    /\ [][\A c \in Calls :
             pc'[c] # pc[c] /\ pc[c] # "done"
                => PhaseRank(pc'[c]) > PhaseRank(pc[c])]_vars
    /\ [](\A c \in Calls :
            /\ cmCalls[c] <= 1
            /\ cmCalls[c] = 1 => n[c] = 0 /\ PhaseRank(pc[c]) >= 4
            /\ status[c] \in {"LockBusy", "CatalogManagerError"}
                 => pc[c] \in {"unlock", "purge", "done"}
            /\ status[c] = "LockBusy" => cmCalls[c] = 0 /\ n[c] = 0)

\* A call gave up on the lock and returned its error although the database
\* was created and sharded meanwhile, so that a second phase-1 update would
\* have matched.
SingleFallbackWitness ==
    \E c \in Calls :
       /\ pc[c] = "done" /\ status[c] = "LockBusy"
       /\ req[c].shardElem = NoElem
       /\ before[c] = NoRecord
       /\ databases[DbOf(c)].exists /\ databases[DbOf(c)].sharded

\* C19: under fair scheduling of the calls, with the store and the catalog
\* manager answering, every call that has started returns, also when another
\* holder keeps the lock of its dbName for ever: lock() gives up with an error
\* after its timeout.
Termination ==
    \A c \in Calls : (pc[c] \notin {"idle", "done"}) ~> (pc[c] = "done")

\* A call has returned the lock's error while another holder has the lock of
\* its database.
TerminationWitness ==
    \E c \in Calls :
       /\ pc[c] = "done" /\ status[c] = "LockBusy" /\ purges[c] = 1
       /\ distLock[DbOf(c)] = OtherHolder

\* C20: a call that took the lock leaves the catalog manager through the
\* release of the lock, and only then writes the audit record (on success) and
\* purges the cache; the audit record comes after the release and before the
\* purge; after its purge the call only returns: it writes no document, does
\* nothing to a lock and does not call the catalog manager.
ExitOrdering ==
    /\ [](\A c \in Calls :
            /\ pc[c] \in {"audit", "purge", "done"} => distLock[DbOf(c)] # c
            /\ pc[c] = "audit" => audits[c] = 0 /\ purges[c] = 0
            /\ pc[c] = "purge" => purges[c] = 0 /\ (status[c] = "OK" <=> audits[c] = 1)
            /\ purges[c] >= 1 => pc[c] = "done")
    /\ [][\A c \in Calls :
             /\ pc[c] \in {"cmRead", "cmWrite"} /\ pc'[c] # pc[c]
                  => pc'[c] \in {"cmWrite", "unlock"}
             /\ pc[c] = "unlock" /\ pc'[c] # pc[c]
                  => /\ pc'[c] = IF status[c] = "none" THEN "audit" ELSE "purge"
                     /\ distLock'[DbOf(c)] # c
             /\ pc[c] = "audit" /\ pc'[c] # pc[c]
                  => pc'[c] = "purge" /\ audits'[c] = 1
             /\ pc[c] = "purge" /\ pc'[c] # pc[c]
                  => pc'[c] = "done" /\ purges'[c] = 1
             /\ pc[c] = "done" /\ pc'[c] # pc[c]
                  => /\ pc'[c] = "idle"
                     /\ databases' = databases
                     /\ distLock' = distLock
                     /\ cmCalls'[c] = 0]_vars

\* A call that went through the lock and the catalog manager has released the
\* lock and written its audit record, and is about to purge the cache, which
\* still holds the entry of its database.
ExitOrderingWitness ==
    \E c \in Calls :
       /\ pc[c] = "purge" /\ cmCalls[c] = 1 /\ n[c] = 0
       /\ status[c] = "OK" /\ audits[c] = 1 /\ purges[c] = 0
       /\ distLock[DbOf(c)] = NoOwner
       /\ DbOf(c) \in cache

====
